---- MODULE Spec2Model ----
(***************************************************************************)
(* Model of svalinn/parametric_modeling: the scripts MTOT.py, tokamak.py,  *)
(* AutoTorus.py and Tutorials/Introduction/Introduction.py.                *)
(*                                                                         *)
(* The geometry scripts issue commands to the Cubit kernel and keep their  *)
(* own count of the volume IDs the kernel hands out.  The model keeps the  *)
(* two apart: `cmds` is the sequence of kernel calls a script has issued,  *)
(* with the IDs the script computed, and `kernel` is the kernel's own      *)
(* table of volumes, filled by applying those calls in order.              *)
(***************************************************************************)
EXTENDS Integers, Sequences, FiniteSets, TLC

VARIABLES prog, pc, args, loc, cmds, kernel, al, omc

vars == <<prog, pc, args, loc, cmds, kernel, al, omc>>

(***************************************************************************)
(* Bounds of the model.                                                    *)
(***************************************************************************)
MaxLayers == 2

MaxDirectTori == 3

(***************************************************************************)
(* Input domains.                                                          *)
(***************************************************************************)
LayerEntries == {<<"fw", 1>>, <<"bz", 2>>, <<"fw", 3>>}

MajorRadii == {8, 10}

MinorRadii == {1, 2}

\* Python values a flag can hold: the bool True that store_true sets, and
\* the string 'False' that the parser's default leaves.
PyTrue == "True"

PyStrFalse == "'False'"

NoneId == 0

(***************************************************************************)
(* Small helpers.                                                          *)
(***************************************************************************)
Min(a, b) == IF a < b THEN a ELSE b

Max(a, b) == IF a > b THEN a ELSE b

SeqsUpTo(S, n) == UNION {[1..k -> S] : k \in 0..n}

SeqsFrom1(S, n) == UNION {[1..k -> S] : k \in 1..n}

\* list(pair.keys()) / list(pair.values()) collected over a list of
\* one-key mappings.
Keys(entries) == [i \in 1..Len(entries) |-> entries[i][1]]

Values(entries) == [i \in 1..Len(entries) |-> entries[i][2]]

\* reversed(layers)
Reversed(s) == [i \in 1..Len(s) |-> s[Len(s) + 1 - i]]

\* A faulty variant of RangeDown: the stop value is included.
RangeDownInclusive(start, stop) == [i \in 1..Max(0, start - stop + 1) |-> start + 1 - i]

\* range(start, stop, -1)
RangeDown(start, stop) == [i \in 1..Max(0, start - stop) |-> start + 1 - i]

\* zip(a, b): stops at the shorter of the two
Zip(a, b) == [i \in 1..Min(Len(a), Len(b)) |-> <<a[i], b[i]>>]

\* np.cumsum
RECURSIVE SumTo(_, _)
SumTo(s, k) == IF k = 0 THEN 0 ELSE SumTo(s, k - 1) + s[k]

\* A faulty variant of CumSum: the running total is not carried over.
CumSumNoCarry(s) == [k \in 1..Len(s) |-> s[k]]

CumSum(s) == [k \in 1..Len(s) |-> SumTo(s, k)]

\* A faulty variant of EqTrue: the flag is tested for truthiness, and a
\* non-empty string is truthy.
Truthy(v) == v \in {PyTrue, PyStrFalse}

\* graveyard == True, dagmc == True
EqTrue(v) == v = PyTrue

(***************************************************************************)
(* Kernel calls.                                                           *)
(***************************************************************************)
InitCmd == [op |-> "init"]

CylinderCmd(height, radius) == [op |-> "cylinder", height |-> height, radius |-> radius]

TorusCmd(major, minor) == [op |-> "torus", major |-> major, minor |-> minor]

CreateTorusCmd(major, minor) == [op |-> "create_torus", major |-> major, minor |-> minor]

GroupCmd(name, vol) == [op |-> "group", name |-> name, vol |-> vol]

SubtractCmd(tool, body, keep) == [op |-> "subtract", tool |-> tool, body |-> body, keep_tool |-> keep]

IntersectCmd(a, b) == [op |-> "intersect", a |-> a, b |-> b]

DeleteCmd(vol) == [op |-> "delete", vol |-> vol]

\* side4 is four times the side, so that 1.25 * length stays an integer
BrickCmd(side4) == [op |-> "brick", side4 |-> side4]

ImprintCmd == [op |-> "imprint"]

MergeCmd == [op |-> "merge"]

SetAttributeCmd == [op |-> "set_attribute"]

ExportAcisCmd(file) == [op |-> "export_acis", file |-> file]

ExportDagmcCmd == [op |-> "export_dagmc", file |-> <<"dagmc.h5m">>]

(***************************************************************************)
(* The kernel under the sequential-ID model the scripts assume: every      *)
(* created volume gets the next unused ID; a subtract between two tori     *)
(* (keep_tool) and an intersect (keep) create a new volume; cutting a      *)
(* volume with the cylinder changes it in place; delete creates nothing.   *)
(* vols[i] describes volume i; IDs are never reused.                       *)
(***************************************************************************)
Vol(kind, major, rin, rout, half) ==
    [kind |-> kind, major |-> major, rin |-> rin, rout |-> rout, half |-> half]

Gone == Vol("gone", 0, 0, 0, "none")

KernelInit == [vols |-> << >>]

Exists(k, id) == id \in 1..Len(k.vols) /\ k.vols[id].kind # "gone"

Highest(k) == Len(k.vols)

KCreate(k, v) == [k EXCEPT !.vols = Append(@, v)]

KSubtract(k, c) ==
    IF ~(Exists(k, c.tool) /\ Exists(k, c.body) /\ c.tool # c.body) THEN k
    ELSE LET t == k.vols[c.tool]
             b == k.vols[c.body]
         IN  IF t.kind = "cylinder"
             THEN \* cut by the cylinder: the body keeps its ID
                  [k EXCEPT !.vols[c.body] = [b EXCEPT !.half = "outboard"]]
             ELSE LET res == [b EXCEPT !.rin = Max(b.rin, t.rout)]
                      consumed == [k.vols EXCEPT ![c.body] = Gone,
                                                 ![c.tool] = IF c.keep_tool THEN t ELSE Gone]
                  IN  [k EXCEPT !.vols = Append(consumed, res)]

KIntersect(k, c) ==
    IF ~(Exists(k, c.a) /\ Exists(k, c.b) /\ c.a # c.b) THEN k
    ELSE LET b == k.vols[c.b]
         IN  KCreate(k, [b EXCEPT !.half = "inboard"])

KDelete(k, c) ==
    IF Exists(k, c.vol) THEN [k EXCEPT !.vols[c.vol] = Gone] ELSE k

KApply(k, c) ==
    CASE c.op \in {"torus", "create_torus"} -> KCreate(k, Vol("torus", c.major, 0, c.minor, "full"))
      [] c.op = "cylinder" -> KCreate(k, Vol("cylinder", 0, 0, c.radius, "full"))
      [] c.op = "brick" -> KCreate(k, Vol("brick", 0, 0, c.side4, "full"))
      [] c.op = "subtract" -> KSubtract(k, c)
      [] c.op = "intersect" -> KIntersect(k, c)
      [] c.op = "delete" -> KDelete(k, c)
      [] OTHER -> k

RECURSIVE KRun(_, _)
KRun(k, cs) == IF cs = << >> THEN k ELSE KRun(KApply(k, Head(cs)), Tail(cs))

(***************************************************************************)
(* MTOT.py                                                                 *)
(***************************************************************************)
\* contor: one torus per cumulative radius
contor(major_radius, minor_radius, radial_build) ==
    LET radii == [k \in 1..Len(radial_build) |-> CumSum(radial_build)[k] + minor_radius]
    IN  [k \in 1..Len(radii) |-> TorusCmd(major_radius, radii[k])]

\* A faulty variant of add_graveyard: vol_id is taken for the next unused
\* ID instead of the last used one.
add_graveyardUnshifted(vol_id, length) ==
    [cmds |-> << BrickCmd(4 * length),
                 BrickCmd(5 * length),
                 SubtractCmd(vol_id, vol_id + 1, FALSE),
                 GroupCmd("Graveyard", vol_id + 2) >>,
     vol_id |-> vol_id + 2]

\* add_graveyard: returns the commands and the new vol_id
add_graveyard(vol_id, length) ==
    [cmds |-> << BrickCmd(4 * length),
                 BrickCmd(5 * length),
                 SubtractCmd(vol_id + 1, vol_id + 2, FALSE),
                 GroupCmd("Graveyard", vol_id + 3) >>,
     vol_id |-> vol_id + 3]

\* A faulty variant of AssembleLoop: on the inboard side the delete names
\* the volume the intersect created, the one that is then grouped.
RECURSIVE AssembleLoopDeletesResult(_, _, _, _, _, _)
AssembleLoopDeletesResult(pairs, i, last_id, out, cyl_id, ib_ob) ==
    IF i > Len(pairs) THEN [cmds |-> out, last_id |-> last_id]
    ELSE LET id == pairs[i][1]
             layer_name == pairs[i][2]
             sub == SubtractCmd(id - 1, id, TRUE)
             l1 == last_id + 1
         IN  IF ib_ob = "inboard"
             THEN AssembleLoopDeletesResult(pairs, i + 1, l1 + 1,
                               out \o << sub, IntersectCmd(cyl_id, l1), DeleteCmd(l1 + 1),
                                         GroupCmd(layer_name, l1 + 1) >>,
                               cyl_id, ib_ob)
             ELSE IF ib_ob = "outboard"
             THEN AssembleLoopDeletesResult(pairs, i + 1, l1,
                               out \o << sub, SubtractCmd(cyl_id, l1, TRUE),
                                         GroupCmd(layer_name, l1) >>,
                               cyl_id, ib_ob)
             ELSE AssembleLoopDeletesResult(pairs, i + 1, l1,
                               out \o << sub, GroupCmd(layer_name, l1) >>,
                               cyl_id, ib_ob)

\* A faulty variant of AssembleLoop: the volume the intersect creates is
\* not counted.
RECURSIVE AssembleLoopNoIntersectId(_, _, _, _, _, _)
AssembleLoopNoIntersectId(pairs, i, last_id, out, cyl_id, ib_ob) ==
    IF i > Len(pairs) THEN [cmds |-> out, last_id |-> last_id]
    ELSE LET id == pairs[i][1]
             layer_name == pairs[i][2]
             sub == SubtractCmd(id - 1, id, TRUE)
             l1 == last_id + 1
         IN  IF ib_ob = "inboard"
             THEN AssembleLoopNoIntersectId(pairs, i + 1, l1,
                               out \o << sub, IntersectCmd(cyl_id, l1), DeleteCmd(l1 - 1),
                                         GroupCmd(layer_name, l1) >>,
                               cyl_id, ib_ob)
             ELSE IF ib_ob = "outboard"
             THEN AssembleLoopNoIntersectId(pairs, i + 1, l1,
                               out \o << sub, SubtractCmd(cyl_id, l1, TRUE),
                                         GroupCmd(layer_name, l1) >>,
                               cyl_id, ib_ob)
             ELSE AssembleLoopNoIntersectId(pairs, i + 1, l1,
                               out \o << sub, GroupCmd(layer_name, l1) >>,
                               cyl_id, ib_ob)

\* The for loop of assemble_layers over the zipped pairs.
RECURSIVE AssembleLoop(_, _, _, _, _, _)
AssembleLoop(pairs, i, last_id, out, cyl_id, ib_ob) ==
    IF i > Len(pairs) THEN [cmds |-> out, last_id |-> last_id]
    ELSE LET id == pairs[i][1]
             layer_name == pairs[i][2]
             sub == SubtractCmd(id - 1, id, TRUE)
             l1 == last_id + 1
         IN  IF ib_ob = "inboard"
             THEN AssembleLoop(pairs, i + 1, l1 + 1,
                               out \o << sub, IntersectCmd(cyl_id, l1), DeleteCmd((l1 + 1) - 1),
                                         GroupCmd(layer_name, l1 + 1) >>,
                               cyl_id, ib_ob)
             ELSE IF ib_ob = "outboard"
             THEN AssembleLoop(pairs, i + 1, l1,
                               out \o << sub, SubtractCmd(cyl_id, l1, TRUE),
                                         GroupCmd(layer_name, l1) >>,
                               cyl_id, ib_ob)
             ELSE AssembleLoop(pairs, i + 1, l1,
                               out \o << sub, GroupCmd(layer_name, l1) >>,
                               cyl_id, ib_ob)

assemble_layers(last_id, first_id, layers, cyl_id, ib_ob) ==
    AssembleLoop(Zip(RangeDown(last_id, first_id), Reversed(layers)), 1, last_id, << >>,
                 cyl_id, ib_ob)

\* The record of one call of assemble_layers: its arguments, its result and
\* the kernel's highest ID before and after.
NoCall == [called |-> FALSE]

CallRec(last_id, first_id, layers, ib_ob, ret, k0, k1) ==
    [called |-> TRUE, last_id |-> last_id, first_id |-> first_id, nlayers |-> Len(layers),
     ib_ob |-> ib_ob, ret |-> ret, before |-> Highest(k0), after |-> Highest(k1)]

(***************************************************************************)
(* Inputs.  A radial build is what yaml.load returns: a list of one-key    *)
(* mappings (symmetric build) or a mapping with the keys 'Inboard' and     *)
(* 'Outboard', each holding such a list.                                   *)
(***************************************************************************)
LayerLists == SeqsUpTo(LayerEntries, MaxLayers)

ListBuild(l) == [kind |-> "list", keys |-> {}, list |-> l, Inboard |-> << >>, Outboard |-> << >>]

DictBuild(keys, ib, ob) ==
    [kind |-> "dict", keys |-> keys, list |-> << >>, Inboard |-> ib, Outboard |-> ob]

RadialBuilds ==
    {ListBuild(l) : l \in LayerLists}
    \cup {DictBuild({"Inboard", "Outboard"}, ib, ob) : ib \in LayerLists, ob \in LayerLists}
    \cup {DictBuild({"Inboard"}, ib, << >>) : ib \in LayerLists}
    \cup {DictBuild({"Outboard"}, << >>, ob) : ob \in LayerLists}
    \cup {DictBuild({}, << >>, << >>)}

\* 'Inboard' in radial_build
HasKey(rb, key) == rb.kind = "dict" /\ key \in rb.keys

\* len(radial_build)
PyLen(rb) == IF rb.kind = "list" THEN Len(rb.list) ELSE Cardinality(rb.keys)

\* The command line: the optional export path may be left out, and -d and
\* -g are flags.
NoPath == "<not given>"

CommandLine(builds) ==
    [radial_build : builds, major_radius : MajorRadii, minor_radius : MinorRadii,
     export_path : {NoPath, "out"}, d : BOOLEAN, g : BOOLEAN]

\* arg_parser and read_radial_build: export_path defaults to 'tokamak'; the
\* store_true flags default to the string 'False'
arg_parser(argv) ==
    [radial_build |-> argv.radial_build,
     major_radius |-> argv.major_radius,
     minor_radius |-> argv.minor_radius,
     export_path |-> IF argv.export_path = NoPath THEN "tokamak" ELSE argv.export_path,
     dagmc |-> IF argv.d THEN PyTrue ELSE PyStrFalse,
     graveyard |-> IF argv.g THEN PyTrue ELSE PyStrFalse,
     cli |-> [export_path |-> argv.export_path, d |-> argv.d, g |-> argv.g]]

MainArgs == {arg_parser(argv) : argv \in CommandLine(RadialBuilds)}

NoLocals == [vol_id |-> 0, cyl_id |-> NoneId, plasma_id |-> NoneId, first_outboard_id |-> NoneId]

\* Issue a sequence of kernel calls.
Issue(new) ==
    /\ cmds' = cmds \o new
    /\ kernel' = KRun(kernel, new)

(***************************************************************************)
(* MTOT.build_torus, in the order of its source lines.                     *)
(***************************************************************************)
\* lines 170-181: init, the splitting cylinder, the plasma torus
M_Start ==
    /\ prog = "MTOT" /\ pc = "m_start"
    /\ LET split == HasKey(args.radial_build, "Inboard") \/ HasKey(args.radial_build, "Outboard")
           v1 == IF split THEN 1 ELSE 0
           plasma_id == v1 + 1
       IN  /\ Issue(<< InitCmd >>
                    \o (IF split THEN << CylinderCmd(4 * args.major_radius, args.major_radius) >>
                        ELSE << >>)
                    \o << TorusCmd(args.major_radius, args.minor_radius),
                          GroupCmd("Vacuum", plasma_id) >>)
           /\ loc' = [loc EXCEPT !.vol_id = plasma_id,
                                 !.cyl_id = IF split THEN v1 ELSE NoneId,
                                 !.plasma_id = plasma_id]
    /\ pc' = IF HasKey(args.radial_build, "Inboard") THEN "m_inboard" ELSE "m_symmetric"
    /\ UNCHANGED <<prog, args, al, omc>>

\* lines 183-194: the inboard tori and their layers
M_Inboard ==
    /\ prog = "MTOT" /\ pc = "m_inboard"
    /\ LET inboard_layers == Keys(args.radial_build.Inboard)
           inboard_thicknesses == Values(args.radial_build.Inboard)
           tori == contor(args.major_radius, args.minor_radius, inboard_thicknesses)
           v == loc.vol_id + Len(inboard_layers)
           r == assemble_layers(v, loc.plasma_id, inboard_layers, loc.cyl_id, "inboard")
       IN  /\ Issue(tori \o r.cmds)
           /\ loc' = [loc EXCEPT !.vol_id = r.last_id]
           /\ al' = CallRec(v, loc.plasma_id, inboard_layers, "inboard", r.last_id,
                            KRun(kernel, tori), KRun(kernel, tori \o r.cmds))
    /\ pc' = "m_outboard"
    /\ UNCHANGED <<prog, args, omc>>

\* lines 196-207: the outboard tori and all outboard layers but the first;
\* radial_build['Outboard'] raises KeyError when the key is missing
M_Outboard ==
    /\ prog = "MTOT" /\ pc = "m_outboard"
    /\ IF ~HasKey(args.radial_build, "Outboard")
       THEN /\ loc' = [loc EXCEPT !.first_outboard_id = loc.vol_id + 1]
            /\ pc' = "error"
            /\ UNCHANGED <<cmds, kernel, al>>
       ELSE LET first_outboard_id == loc.vol_id + 1
                outboard_layers == Keys(args.radial_build.Outboard)
                outboard_thicknesses == Values(args.radial_build.Outboard)
                tori == contor(args.major_radius, args.minor_radius, outboard_thicknesses)
                v == loc.vol_id + Len(outboard_layers)
                r == assemble_layers(v, first_outboard_id, outboard_layers, loc.cyl_id, "outboard")
            IN  /\ Issue(tori \o r.cmds)
                /\ loc' = [loc EXCEPT !.vol_id = r.last_id, !.first_outboard_id = first_outboard_id]
                /\ al' = CallRec(v, first_outboard_id, outboard_layers, "outboard", r.last_id,
                                 KRun(kernel, tori), KRun(kernel, tori \o r.cmds))
                /\ pc' = "m_first_outboard"
    /\ UNCHANGED <<prog, args, omc>>

\* A faulty variant of M_FirstOutboard: the cylinder is deleted before the
\* first outboard layer is cut with it.
M_FirstOutboardDeleteFirst ==
    /\ prog = "MTOT" /\ pc = "m_first_outboard"
    /\ LET outboard_layers == Keys(args.radial_build.Outboard)
           v == loc.vol_id + 1
           cut == << DeleteCmd(loc.cyl_id),
                     SubtractCmd(loc.plasma_id, loc.first_outboard_id, TRUE),
                     SubtractCmd(loc.cyl_id, v, TRUE) >>
       IN  /\ loc' = [loc EXCEPT !.vol_id = v]
           /\ IF Len(outboard_layers) = 0
              THEN Issue(cut) /\ pc' = "error"
              ELSE Issue(cut \o << GroupCmd(outboard_layers[1], v) >>) /\ pc' = "m_finish"
    /\ UNCHANGED <<prog, args, al, omc>>

\* lines 209-214: the first outboard layer, then the cylinder is deleted;
\* outboard_layers[0] raises IndexError on an empty list
M_FirstOutboard ==
    /\ prog = "MTOT" /\ pc = "m_first_outboard"
    /\ LET outboard_layers == Keys(args.radial_build.Outboard)
           v == loc.vol_id + 1
           cut == << SubtractCmd(loc.plasma_id, loc.first_outboard_id, TRUE),
                     SubtractCmd(loc.cyl_id, v, TRUE) >>
       IN  /\ loc' = [loc EXCEPT !.vol_id = v]
           /\ IF Len(outboard_layers) = 0
              THEN Issue(cut) /\ pc' = "error"
              ELSE /\ Issue(cut \o << GroupCmd(outboard_layers[1], v), DeleteCmd(loc.cyl_id) >>)
                   /\ pc' = "m_finish"
    /\ UNCHANGED <<prog, args, al, omc>>

\* lines 216-226: the symmetric build; radial_build[index] raises KeyError
\* when radial_build is a mapping
M_Symmetric ==
    /\ prog = "MTOT" /\ pc = "m_symmetric"
    /\ IF args.radial_build.kind = "dict" /\ PyLen(args.radial_build) > 0
       THEN pc' = "error" /\ UNCHANGED <<cmds, kernel, loc, al>>
       ELSE LET layers == Keys(args.radial_build.list)
                thicknesses == Values(args.radial_build.list)
                tori == contor(args.major_radius, args.minor_radius, thicknesses)
                v == loc.vol_id + Len(thicknesses)
                r == assemble_layers(v, loc.plasma_id, layers, NoneId, "none")
            IN  /\ Issue(tori \o r.cmds)
                /\ loc' = [loc EXCEPT !.vol_id = r.last_id]
                /\ al' = CallRec(v, loc.plasma_id, layers, "none", r.last_id,
                                 KRun(kernel, tori), KRun(kernel, tori \o r.cmds))
                /\ pc' = "m_finish"
    /\ UNCHANGED <<prog, args, omc>>

\* lines 228-232: the graveyard when asked for, then imprint and merge
M_Finish ==
    /\ prog = "MTOT" /\ pc = "m_finish"
    /\ LET g == add_graveyard(loc.vol_id, args.major_radius * 4)
       IN  IF EqTrue(args.graveyard)
           THEN Issue(g.cmds \o << ImprintCmd, MergeCmd >>) /\ loc' = [loc EXCEPT !.vol_id = g.vol_id]
           ELSE Issue(<< ImprintCmd, MergeCmd >>) /\ loc' = loc
    /\ pc' = "m_save"
    /\ UNCHANGED <<prog, args, al, omc>>

\* lines 228-232 as a function of vol_id
build_torus_tail(vol_id, major_radius, graveyard) ==
    (IF EqTrue(graveyard) THEN add_graveyard(vol_id, major_radius * 4).cmds ELSE << >>)
    \o << ImprintCmd, MergeCmd >>

\* MTOT.build_torus (lines 154-232) as one function of its arguments: the
\* kernel calls of a whole call, and whether it returned or raised.
build_torus(major_radius, minor_radius, radial_build, graveyard) ==
    LET split == HasKey(radial_build, "Inboard") \/ HasKey(radial_build, "Outboard")
        cyl_id == IF split THEN 1 ELSE NoneId
        plasma_id == IF split THEN 2 ELSE 1
        pre == << InitCmd >>
               \o (IF split THEN << CylinderCmd(4 * major_radius, major_radius) >> ELSE << >>)
               \o << TorusCmd(major_radius, minor_radius), GroupCmd("Vacuum", plasma_id) >>
    IN  IF HasKey(radial_build, "Inboard")
        THEN LET inboard_layers == Keys(radial_build.Inboard)
                 ib == assemble_layers(plasma_id + Len(inboard_layers), plasma_id,
                                       inboard_layers, cyl_id, "inboard")
                 inboard == pre \o contor(major_radius, minor_radius, Values(radial_build.Inboard))
                                \o ib.cmds
             IN  IF ~HasKey(radial_build, "Outboard")
                 THEN [cmds |-> inboard, status |-> "raised"]
                 ELSE LET first_outboard_id == ib.last_id + 1
                          outboard_layers == Keys(radial_build.Outboard)
                          ob == assemble_layers(ib.last_id + Len(outboard_layers), first_outboard_id,
                                                outboard_layers, cyl_id, "outboard")
                          vol_id == ob.last_id + 1
                          cut == inboard
                                 \o contor(major_radius, minor_radius, Values(radial_build.Outboard))
                                 \o ob.cmds
                                 \o << SubtractCmd(plasma_id, first_outboard_id, TRUE),
                                       SubtractCmd(cyl_id, vol_id, TRUE) >>
                      IN  IF Len(outboard_layers) = 0
                          THEN [cmds |-> cut, status |-> "raised"]
                          ELSE [cmds |-> cut \o << GroupCmd(outboard_layers[1], vol_id),
                                                   DeleteCmd(cyl_id) >>
                                             \o build_torus_tail(vol_id, major_radius, graveyard),
                                status |-> "returned"]
        ELSE IF radial_build.kind = "dict" /\ PyLen(radial_build) > 0
        THEN [cmds |-> pre, status |-> "raised"]
        ELSE LET layers == Keys(radial_build.list)
                 thicknesses == Values(radial_build.list)
                 r == assemble_layers(plasma_id + Len(thicknesses), plasma_id, layers, NoneId, "none")
             IN  [cmds |-> pre \o contor(major_radius, minor_radius, thicknesses) \o r.cmds
                               \o build_torus_tail(r.last_id, major_radius, graveyard),
                  status |-> "returned"]

\* A faulty variant of save_geometry: the export is issued before the
\* attributes are switched on.
save_geometryExportFirst(export_path, dagmc) ==
    << ExportAcisCmd(<<export_path, ".sat">>), SetAttributeCmd >>
    \o (IF EqTrue(dagmc) THEN << ExportDagmcCmd >> ELSE << >>)

\* save_geometry, lines 246-250
save_geometry(export_path, dagmc) ==
    << SetAttributeCmd, ExportAcisCmd(<<export_path, ".sat">>) >>
    \o (IF EqTrue(dagmc) THEN << ExportDagmcCmd >> ELSE << >>)

M_SaveGeometry ==
    /\ prog = "MTOT" /\ pc = "m_save"
    /\ Issue(save_geometry(args.export_path, args.dagmc))
    /\ pc' = "done"
    /\ UNCHANGED <<prog, args, loc, al, omc>>

(***************************************************************************)
(* assemble_layers called on its own (MTOT.py used as a module), on a      *)
(* kernel that holds the cylinder and a run of nested tori.                *)
(***************************************************************************)
DirectCalls ==
    {[last_id |-> l, first_id |-> f, layers |-> Keys(ls), ib_ob |-> m] :
        l \in 2..(1 + MaxDirectTori), f \in 2..(1 + MaxDirectTori),
        ls \in LayerLists, m \in {"none", "inboard", "outboard"}}

DirectArgs == {a \in DirectCalls : a.first_id <= a.last_id}

DirectSetup(a) ==
    << InitCmd, CylinderCmd(40, 10) >> \o [i \in 1..(a.last_id - 1) |-> TorusCmd(10, i)]

D_AssembleLayers ==
    /\ prog = "assemble_layers" /\ pc = "d_call"
    /\ LET cyl_id == IF args.ib_ob = "none" THEN NoneId ELSE 1
           r == assemble_layers(args.last_id, args.first_id, args.layers, cyl_id, args.ib_ob)
       IN  /\ Issue(r.cmds)
           /\ al' = CallRec(args.last_id, args.first_id, args.layers, args.ib_ob, r.last_id,
                            kernel, KRun(kernel, r.cmds))
    /\ pc' = "done"
    /\ UNCHANGED <<prog, args, loc, omc>>

(***************************************************************************)
(* tokamak.py: the earlier version of build_torus, with the volume IDs     *)
(* written as arithmetic on the layer counts.  Its radial build is a       *)
(* mapping from layer name to thickness, so the names of one section are   *)
(* distinct.                                                               *)
(***************************************************************************)
DistinctNames(l) == \A i, j \in 1..Len(l) : i # j => l[i][1] # l[j][1]

DictLists == {l \in LayerLists : DistinctNames(l)}

TokamakBuilds ==
    {ListBuild(l) : l \in DictLists}
    \cup {DictBuild({"Inboard", "Outboard"}, ib, ob) : ib \in DictLists, ob \in DictLists}
    \cup {DictBuild({"Inboard"}, ib, << >>) : ib \in DictLists}

TokamakArgs == {arg_parser(argv) : argv \in CommandLine(TokamakBuilds)}

TokamakLocals == [inboard_id |-> 0, outboard_id |-> 0, vol_id |-> 0]

\* lines 94-104 and 150-157: init, cylinder, plasma torus; radial_build['Outboard']
\* raises KeyError before anything is issued
T_Start ==
    /\ prog = "tokamak" /\ pc = "t_start"
    /\ IF HasKey(args.radial_build, "Inboard")
       THEN IF ~HasKey(args.radial_build, "Outboard")
            THEN pc' = "error" /\ UNCHANGED <<cmds, kernel>>
            ELSE /\ Issue(<< InitCmd, CylinderCmd(4 * args.major_radius, args.major_radius),
                             TorusCmd(args.major_radius, args.minor_radius),
                             GroupCmd("Vacuum", 2) >>)
                 /\ pc' = "t_inboard"
       ELSE /\ Issue(<< InitCmd, TorusCmd(args.major_radius, args.minor_radius),
                        GroupCmd("Vacuum", 1) >>)
            /\ pc' = "t_symmetric"
    /\ UNCHANGED <<prog, args, loc, al, omc>>

\* lines 112-119
RECURSIVE T_InboardLoop(_, _, _, _)
T_InboardLoop(pairs, i, inboard_id, out) ==
    IF i > Len(pairs) THEN [cmds |-> out, inboard_id |-> inboard_id]
    ELSE LET id == pairs[i][1]
             layer_name == pairs[i][2]
         IN  T_InboardLoop(pairs, i + 1, inboard_id + 2,
                           out \o << SubtractCmd(id - 1, id, TRUE),
                                     IntersectCmd(1, inboard_id - 1),
                                     DeleteCmd(inboard_id - 1),
                                     GroupCmd(layer_name, inboard_id) >>)

\* lines 106-119
T_Inboard ==
    /\ prog = "tokamak" /\ pc = "t_inboard"
    /\ LET inboard_layers == Keys(args.radial_build.Inboard)
           inboard_thicknesses == Values(args.radial_build.Inboard)
           inboard_id == Len(inboard_layers) + 4
           r == T_InboardLoop(Zip(RangeDown(inboard_id - 2, 2), Reversed(inboard_layers)),
                              1, inboard_id, << >>)
       IN  /\ Issue(contor(args.major_radius, args.minor_radius, inboard_thicknesses) \o r.cmds)
           /\ loc' = [loc EXCEPT !.inboard_id = r.inboard_id]
    /\ pc' = "t_outboard"
    /\ UNCHANGED <<prog, args, al, omc>>

\* A faulty variant of T_OutboardLoop: the cylinder is subtracted from the
\* torus instead of from the shell just made.
RECURSIVE T_OutboardLoopCutsTorus(_, _, _, _)
T_OutboardLoopCutsTorus(pairs, i, outboard_id, out) ==
    IF i > Len(pairs) THEN [cmds |-> out, outboard_id |-> outboard_id]
    ELSE LET id == pairs[i][1]
             layer_name == pairs[i][2]
         IN  T_OutboardLoopCutsTorus(pairs, i + 1, outboard_id + 1,
                            out \o << SubtractCmd(id - 1, id, TRUE),
                                      SubtractCmd(1, id, TRUE),
                                      GroupCmd(layer_name, outboard_id) >>)

\* lines 127-132
RECURSIVE T_OutboardLoop(_, _, _, _)
T_OutboardLoop(pairs, i, outboard_id, out) ==
    IF i > Len(pairs) THEN [cmds |-> out, outboard_id |-> outboard_id]
    ELSE LET id == pairs[i][1]
             layer_name == pairs[i][2]
         IN  T_OutboardLoop(pairs, i + 1, outboard_id + 1,
                            out \o << SubtractCmd(id - 1, id, TRUE),
                                      SubtractCmd(1, outboard_id, TRUE),
                                      GroupCmd(layer_name, outboard_id) >>)

\* lines 121-132
T_Outboard ==
    /\ prog = "tokamak" /\ pc = "t_outboard"
    /\ LET outboard_layers == Keys(args.radial_build.Outboard)
           outboard_thicknesses == Values(args.radial_build.Outboard)
           outboard_id == Len(outboard_layers) + loc.inboard_id - 1
           r == T_OutboardLoop(Zip(RangeDown(outboard_id - 1, loc.inboard_id - 1),
                                   Reversed(outboard_layers)),
                               1, outboard_id, << >>)
       IN  /\ Issue(contor(args.major_radius, args.minor_radius, outboard_thicknesses) \o r.cmds)
           /\ loc' = [loc EXCEPT !.outboard_id = r.outboard_id]
    /\ pc' = "t_first_outboard"
    /\ UNCHANGED <<prog, args, al, omc>>

\* lines 134-138; outboard_layers[0] raises IndexError on an empty section
T_FirstOutboard ==
    /\ prog = "tokamak" /\ pc = "t_first_outboard"
    /\ LET outboard_layers == Keys(args.radial_build.Outboard)
           cut == << SubtractCmd(2, loc.inboard_id - 1, TRUE),
                     SubtractCmd(1, loc.outboard_id, TRUE) >>
       IN  IF Len(outboard_layers) = 0
           THEN Issue(cut) /\ pc' = "error"
           ELSE /\ Issue(cut \o << GroupCmd(outboard_layers[1], loc.outboard_id), DeleteCmd(1) >>)
                /\ pc' = "t_split_finish"
    /\ UNCHANGED <<prog, args, loc, al, omc>>

\* lines 140-148
T_SplitFinish ==
    /\ prog = "tokamak" /\ pc = "t_split_finish"
    /\ LET length == 4 * args.major_radius
       IN  Issue((IF EqTrue(args.graveyard)
                  THEN << BrickCmd(4 * length), BrickCmd(5 * length),
                          SubtractCmd(loc.outboard_id + 1, loc.outboard_id + 2, FALSE),
                          GroupCmd("Graveyard", loc.outboard_id + 3) >>
                  ELSE << >>)
                 \o << ImprintCmd, MergeCmd >>)
    /\ pc' = "t_save"
    /\ UNCHANGED <<prog, args, loc, al, omc>>

\* lines 162-165
RECURSIVE T_SymLoop(_, _, _, _)
T_SymLoop(pairs, i, vol_id, out) ==
    IF i > Len(pairs) THEN [cmds |-> out, vol_id |-> vol_id]
    ELSE LET id == pairs[i][1]
             layer_name == pairs[i][2]
         IN  T_SymLoop(pairs, i + 1, vol_id + 1,
                       out \o << SubtractCmd(id - 1, id, TRUE), GroupCmd(layer_name, vol_id) >>)

\* lines 159-165
T_Symmetric ==
    /\ prog = "tokamak" /\ pc = "t_symmetric"
    /\ LET layers == Keys(args.radial_build.list)
           thicknesses == Values(args.radial_build.list)
           vol_id == Len(thicknesses) + 2
           r == T_SymLoop(Zip(RangeDown(vol_id - 1, 1), Reversed(layers)), 1, vol_id, << >>)
       IN  /\ Issue(contor(args.major_radius, args.minor_radius, thicknesses) \o r.cmds)
           /\ loc' = [loc EXCEPT !.vol_id = r.vol_id]
    /\ pc' = "t_sym_finish"
    /\ UNCHANGED <<prog, args, al, omc>>

\* lines 167-175
T_SymFinish ==
    /\ prog = "tokamak" /\ pc = "t_sym_finish"
    /\ LET length == 4 * args.major_radius
       IN  Issue((IF EqTrue(args.graveyard)
                  THEN << BrickCmd(4 * length), BrickCmd(5 * length),
                          SubtractCmd(loc.vol_id, loc.vol_id + 1, FALSE),
                          GroupCmd("Graveyard", loc.vol_id + 2) >>
                  ELSE << >>)
                 \o << ImprintCmd, MergeCmd >>)
    /\ pc' = "t_save"
    /\ UNCHANGED <<prog, args, loc, al, omc>>

\* tokamak.save_geometry, lines 189-193
T_SaveGeometry ==
    /\ prog = "tokamak" /\ pc = "t_save"
    /\ Issue(save_geometry(args.export_path, args.dagmc))
    /\ pc' = "done"
    /\ UNCHANGED <<prog, args, loc, al, omc>>

(***************************************************************************)
(* AutoTorus.py: the interactive script.                                   *)
(***************************************************************************)
AutoMajorRadii == {4, 5}

LayerNames == {"fw", "bz"}

ThicknessStrings == {"1", "2"}

\* int(i) on the strings the model types in
int(str) == CASE str = "1" -> 1 [] str = "2" -> 2 [] str = "3" -> 3

AutoArgs ==
    [R : AutoMajorRadii, r : MinorRadii,
     names : SeqsFrom1(LayerNames, MaxLayers), t : SeqsFrom1(ThicknessStrings, MaxLayers)]

\* lines 25-27: T += int(i)
RECURSIVE TotalThickness(_, _)
TotalThickness(t, k) == IF k = 0 THEN 0 ELSE TotalThickness(t, k - 1) + int(t[k])

\* lines 21-23 and 32-34: the two checks
LengthsDiffer(names, t) == Len(names) # Len(t)

\* A faulty variant of TooThick: the boundary case is rejected too.
TooThickOrEqual(T, r, R) == T + r >= R

TooThick(T, r, R) == T + r > R

\* lines 2-34: cubit.init, the prompts, the two checks, each ending in exit()
A_Validate ==
    /\ prog = "AutoTorus" /\ pc = "a_validate"
    /\ Issue(<< InitCmd >>)
    /\ IF LengthsDiffer(args.names, args.t)
       THEN pc' = "exit" /\ loc' = loc
       ELSE LET T == TotalThickness(args.t, Len(args.t))
            IN  /\ loc' = [T |-> T]
                /\ pc' = IF TooThick(T, args.r, args.R) THEN "exit" ELSE "a_tori"
    /\ UNCHANGED <<prog, args, al, omc>>

\* lines 39-42
RECURSIVE A_ToriLoop(_, _, _, _, _)
A_ToriLoop(t, j, a, R, out) ==
    IF j > Len(t) THEN out
    ELSE LET a1 == a + int(t[j])
         IN  A_ToriLoop(t, j + 1, a1, R, Append(out, CreateTorusCmd(R, a1)))

\* lines 36-42
A_Tori ==
    /\ prog = "AutoTorus" /\ pc = "a_tori"
    /\ Issue(A_ToriLoop(args.t, 1, args.r, args.R, << CreateTorusCmd(args.R, args.r) >>))
    /\ pc' = "a_subtract"
    /\ UNCHANGED <<prog, args, loc, al, omc>>

\* lines 48-52
RECURSIVE A_SubtractLoop(_, _)
A_SubtractLoop(k, out) ==
    IF ~(k > 1) THEN out
    ELSE A_SubtractLoop(k - 1, Append(out, SubtractCmd(k - 1, k, TRUE)))

A_Subtract ==
    /\ prog = "AutoTorus" /\ pc = "a_subtract"
    /\ Issue(A_SubtractLoop(Len(args.t) + 1, << >>))
    /\ pc' = "a_imprint"
    /\ UNCHANGED <<prog, args, loc, al, omc>>

\* lines 58-59
A_ImprintMerge ==
    /\ prog = "AutoTorus" /\ pc = "a_imprint"
    /\ Issue(<< ImprintCmd, MergeCmd >>)
    /\ pc' = "a_group"
    /\ UNCHANGED <<prog, args, loc, al, omc>>

\* A faulty variant of A_GroupLoop: the IDs are counted up from the first
\* shell, so the innermost layer gets the outermost shell.
RECURSIVE A_GroupLoopAscending(_, _, _, _)
A_GroupLoopAscending(names, i, n, out) ==
    IF i > Len(names) THEN out
    ELSE A_GroupLoopAscending(names, i + 1, n - 1,
                              Append(out, GroupCmd(names[i], Len(names) + 1 + i)))

\* lines 65-69
RECURSIVE A_GroupLoop(_, _, _, _)
A_GroupLoop(names, i, n, out) ==
    IF i > Len(names) THEN out
    ELSE A_GroupLoop(names, i + 1, n - 1, Append(out, GroupCmd(names[i], n)))

\* lines 64-69
A_Group ==
    /\ prog = "AutoTorus" /\ pc = "a_group"
    /\ Issue(A_GroupLoop(args.names, 1, 2 * Len(args.names) + 1, << GroupCmd("Vaccum", 1) >>))
    /\ pc' = "a_export"
    /\ UNCHANGED <<prog, args, loc, al, omc>>

\* lines 73-77: the file name and path are asked for here
A_Export ==
    /\ prog = "AutoTorus" /\ pc = "a_export"
    /\ \E path \in {"", "out/"}, filename \in {"torus"} :
          Issue(<< SetAttributeCmd, ExportAcisCmd(<<path, filename, ".sat">>) >>)
    /\ pc' = "done"
    /\ UNCHANGED <<prog, args, loc, al, omc>>

(***************************************************************************)
(* Tutorials/Introduction/Introduction.py: the OpenMC configuration.       *)
(* omc holds the script's objects and the log of what it has written and   *)
(* run.  The statements run in the order IntroOrder.                       *)
(***************************************************************************)
Undefined == [defined |-> FALSE]

OmcInit ==
    [mat |-> << >>, settings |-> Undefined, source |-> Undefined, tallies |-> << >>, log |-> << >>]

\* A faulty order of the statements: the settings are written before the
\* source is attached to them.
IntroOrderExportEarly ==
    << "materials", "export_materials", "settings", "source", "export_settings",
       "attach_source", "tallies", "export_tallies", "run" >>

IntroOrder ==
    << "materials", "export_materials", "settings", "source", "attach_source",
       "export_settings", "tallies", "export_tallies", "run" >>

\* the statement after the one at position i
IntroPc(i) == IF i > Len(IntroOrder) THEN "done" ELSE IntroOrder[i]

IntroAt(stmt) ==
    /\ prog = "Introduction" /\ pc = stmt
    /\ loc.line \in 1..Len(IntroOrder) /\ IntroOrder[loc.line] = stmt
    /\ loc' = [line |-> loc.line + 1]
    /\ pc' = IntroPc(loc.line + 1)
    /\ UNCHANGED <<prog, args, cmds, kernel, al>>

\* lines 4-44: the three mixed materials, compiled
I_Materials ==
    /\ IntroAt("materials")
    /\ omc' = [omc EXCEPT !.mat = << "first_wall", "breeder", "back_wall" >>]

\* line 45
I_ExportMaterials ==
    /\ IntroAt("export_materials")
    /\ omc' = [omc EXCEPT !.log = Append(@, [op |-> "export", file |-> "materials", content |-> omc.mat])]

\* lines 48-52
I_Settings ==
    /\ IntroAt("settings")
    /\ omc' = [omc EXCEPT !.settings = [defined |-> TRUE, dagmc |-> TRUE, run_mode |-> "fixed source",
                                        particles |-> 10000, batches |-> 10, source |-> Undefined]]

\* lines 55-61
I_Source ==
    /\ IntroAt("source")
    /\ omc' = [omc EXCEPT !.source = [defined |-> TRUE, space |-> "CylindricalIndependent",
                                      angle |-> "Isotropic", energy |-> "Discrete"]]

\* line 64
I_AttachSource ==
    /\ IntroAt("attach_source")
    /\ omc' = [omc EXCEPT !.settings.source = omc.source]

\* line 65
I_ExportSettings ==
    /\ IntroAt("export_settings")
    /\ omc' = [omc EXCEPT !.log = Append(@, [op |-> "export", file |-> "settings", content |-> omc.settings])]

\* lines 69-76
I_Tallies ==
    /\ IntroAt("tallies")
    /\ omc' = [omc EXCEPT !.tallies = << [name |-> "TBR", filters |-> << [type |-> "cell", bins |-> 6] >>,
                                          scores |-> << "H3-production" >>] >>]

\* line 77
I_ExportTallies ==
    /\ IntroAt("export_tallies")
    /\ omc' = [omc EXCEPT !.log = Append(@, [op |-> "export", file |-> "tallies", content |-> omc.tallies])]

\* line 80
I_Run ==
    /\ IntroAt("run")
    /\ omc' = [omc EXCEPT !.log = Append(@, [op |-> "run"])]

(***************************************************************************)
(* Specification                                                           *)
(***************************************************************************)
InitMTOT ==
    /\ prog = "MTOT" /\ pc = "m_start"
    /\ args \in MainArgs
    /\ loc = NoLocals
    /\ cmds = << >>

InitTokamak ==
    /\ prog = "tokamak" /\ pc = "t_start"
    /\ args \in TokamakArgs
    /\ loc = TokamakLocals
    /\ cmds = << >>

InitAuto ==
    /\ prog = "AutoTorus" /\ pc = "a_validate"
    /\ args \in AutoArgs
    /\ loc = [T |-> 0]
    /\ cmds = << >>

InitIntro ==
    /\ prog = "Introduction" /\ pc = IntroPc(1)
    /\ args = << >>
    /\ loc = [line |-> 1]
    /\ cmds = << >>

InitDirect ==
    /\ prog = "assemble_layers" /\ pc = "d_call"
    /\ args \in DirectArgs
    /\ loc = NoLocals
    /\ cmds = DirectSetup(args)

Init ==
    /\ InitMTOT \/ InitTokamak \/ InitAuto \/ InitIntro \/ InitDirect
    /\ kernel = KRun(KernelInit, cmds)
    /\ al = NoCall
    /\ omc = OmcInit

Next ==
    \/ M_Start
    \/ M_Inboard
    \/ M_Outboard
    \/ M_FirstOutboard
    \/ M_Symmetric
    \/ M_Finish
    \/ M_SaveGeometry
    \/ D_AssembleLayers
    \/ T_Start
    \/ T_Inboard
    \/ T_Outboard
    \/ T_FirstOutboard
    \/ T_SplitFinish
    \/ T_Symmetric
    \/ T_SymFinish
    \/ T_SaveGeometry
    \/ A_Validate
    \/ A_Tori
    \/ A_Subtract
    \/ A_ImprintMerge
    \/ A_Group
    \/ A_Export
    \/ I_Materials
    \/ I_ExportMaterials
    \/ I_Settings
    \/ I_Source
    \/ I_AttachSource
    \/ I_ExportSettings
    \/ I_Tallies
    \/ I_ExportTallies
    \/ I_Run

Spec == Init /\ [][Next]_vars

(***************************************************************************)
(* Vocabulary of the properties.                                           *)
(***************************************************************************)
CmdIdx(op) == {i \in 1..Len(cmds) : cmds[i].op = op}

GroupIdx == CmdIdx("group")

GroupsNamed(name) == {i \in GroupIdx : cmds[i].name = name}

GroupedVols == {cmds[i].vol : i \in GroupIdx}

ExistingVols == {id \in 1..Highest(kernel) : Exists(kernel, id)}

EntriesNamed(entries, name) == {j \in 1..Len(entries) : entries[j][1] = name}

\* build_torus has returned
MtotBuilt == prog = "MTOT" /\ pc \in {"m_save", "done"}

SymBuild(rb) == rb.kind = "list" /\ Len(rb.list) >= 1

SplitBuild(rb) ==
    /\ rb.kind = "dict" /\ rb.keys = {"Inboard", "Outboard"}
    /\ Len(rb.Inboard) >= 1 /\ Len(rb.Outboard) >= 1

AllEntries(rb) == IF rb.kind = "list" THEN rb.list ELSE rb.Inboard \o rb.Outboard

\* C1: MTOT.build_torus with graveyard off issues one group command per
\* solid: with m >= 1 inboard and p >= 1 outboard entries exactly m + p + 1
\* group commands, with n >= 1 symmetric entries exactly n + 1: one
\* 'mat:Vacuum' naming the plasma torus, and for every layer name as many
\* group commands as there are entries of that name; the grouped volumes are
\* exactly the volumes the kernel still holds, each grouped once.
C1_OneGroupPerSolid ==
    (MtotBuilt /\ ~args.cli.g /\ (SymBuild(args.radial_build) \/ SplitBuild(args.radial_build)))
    => LET entries == AllEntries(args.radial_build)
           vac == GroupsNamed("Vacuum")
       IN  /\ Cardinality(GroupIdx) = Len(entries) + 1
           /\ Cardinality(vac) = 1
           /\ \A i \in vac :
                 /\ cmds[i].vol = loc.plasma_id
                 /\ Exists(kernel, cmds[i].vol)
                 /\ kernel.vols[cmds[i].vol]
                      = Vol("torus", args.major_radius, 0, args.minor_radius, "full")
           /\ \A j \in 1..Len(entries) :
                 Cardinality(GroupsNamed(entries[j][1]))
                   = Cardinality(EntriesNamed(entries, entries[j][1]))
           /\ GroupedVols = ExistingVols
           /\ Cardinality(GroupedVols) = Cardinality(GroupIdx)

C1_Witness ==
    /\ MtotBuilt /\ pc = "done" /\ ~args.cli.g
    /\ SplitBuild(args.radial_build)
    /\ Len(args.radial_build.Inboard) = 2 /\ Len(args.radial_build.Outboard) = 2
    /\ Cardinality(GroupIdx) = 5
    /\ Cardinality(GroupsNamed("fw")) = 3

IsTorus(c) == c.op \in {"torus", "create_torus"}

\* the torus creations issued so far, in order
Tori == SelectSeq(cmds, IsTorus)

\* The tori T[start+1 .. start+Len(th)] are the ones one contor call makes
\* for the thicknesses th around a plasma of minor radius base: each has
\* the major radius, and each minor radius is the previous one (the plasma's
\* for the first) plus the layer's thickness.
NestedAfter(T, start, major, base, th) ==
    /\ Len(T) >= start + Len(th)
    /\ \A k \in 1..Len(th) :
          /\ T[start + k].major = major
          /\ T[start + k].minor - (IF k = 1 THEN base ELSE T[start + k - 1].minor) = th[k]
          /\ (\A j \in 1..Len(th) : th[j] > 0) =>
                /\ T[start + k].minor > base
                /\ k > 1 => T[start + k].minor > T[start + k - 1].minor

\* the sections contor has been called with so far, by script and position
SectionsDone ==
    LET rb == args.radial_build
    IN  CASE prog = "MTOT" /\ pc \in {"m_finish", "m_save", "done"} /\ ~HasKey(rb, "Inboard")
               -> << Values(rb.list) >>
          [] prog = "MTOT" /\ pc = "m_outboard" -> << Values(rb.Inboard) >>
          [] prog = "MTOT" /\ pc \in {"m_first_outboard", "m_finish", "m_save", "done"}
               /\ HasKey(rb, "Inboard")
               -> << Values(rb.Inboard), Values(rb.Outboard) >>
          [] prog = "tokamak" /\ pc \in {"t_sym_finish", "t_save", "done"} /\ ~HasKey(rb, "Inboard")
               -> << Values(rb.list) >>
          [] prog = "tokamak" /\ pc = "t_outboard" -> << Values(rb.Inboard) >>
          [] prog = "tokamak" /\ pc \in {"t_first_outboard", "t_split_finish", "t_save", "done"}
               /\ HasKey(rb, "Inboard")
               -> << Values(rb.Inboard), Values(rb.Outboard) >>
          [] OTHER -> << >>

\* C2: each contor call creates exactly one torus per thickness, in list
\* order, all with the given major radius, the k-th with minor radius
\* minor_radius plus the first k thicknesses; for positive thicknesses the
\* radii grow strictly and exceed the plasma's.  AutoTorus creates its layer
\* tori with the same cumulative radii.
C2_CumulativeRadii ==
    /\ (prog \in {"MTOT", "tokamak"} /\ SectionsDone # << >>) =>
          LET first == SectionsDone[1]
              second == IF Len(SectionsDone) = 2 THEN SectionsDone[2] ELSE << >>
          IN  /\ Len(Tori) = 1 + Len(first) + Len(second)
              /\ Tori[1] = TorusCmd(args.major_radius, args.minor_radius)
              /\ NestedAfter(Tori, 1, args.major_radius, args.minor_radius, first)
              /\ NestedAfter(Tori, 1 + Len(first), args.major_radius, args.minor_radius, second)
    /\ (prog = "AutoTorus" /\ pc \in {"a_subtract", "a_imprint", "a_group", "a_export", "done"}) =>
          /\ Len(Tori) = 1 + Len(args.t)
          /\ Tori[1] = CreateTorusCmd(args.R, args.r)
          /\ NestedAfter(Tori, 1, args.R, args.r, [j \in 1..Len(args.t) |-> int(args.t[j])])

C2_Witness ==
    /\ prog = "MTOT" /\ pc = "m_finish"
    /\ args.radial_build.kind = "list" /\ args.minor_radius = 2
    /\ Values(args.radial_build.list) = << 2, 3 >>
    /\ Len(Tori) = 3 /\ Tori[2].minor = 4 /\ Tori[3].minor = 7

\* C3 (as amended): when assemble_layers is called with last_id equal to
\* the highest ID the kernel has allocated, the value it returns is the
\* highest ID allocated when it returns; with k = max(0, min(len(layers),
\* last_id - first_id)) iterations it returns last_id + 2k in inboard mode
\* and last_id + k in outboard and in symmetric mode.
C3_ReturnsHighestId ==
    (al.called /\ al.last_id = al.before) =>
        LET k == Max(0, Min(al.nlayers, al.last_id - al.first_id))
        IN  /\ al.ret = al.after
            /\ al.ret = al.last_id + (IF al.ib_ob = "inboard" THEN 2 * k ELSE k)

C3_Witness ==
    /\ al.called /\ al.last_id = al.before /\ al.ib_ob = "inboard"
    /\ al.nlayers = 2 /\ al.last_id - al.first_id = 2
    /\ al.ret = al.last_id + 4 /\ al.ret = al.after

\* C3 as stated: k = min(len(layers), last_id - first_id), which is negative
\* when first_id exceeds last_id.
C3_AsStated ==
    (al.called /\ al.last_id = al.before) =>
        LET k == Min(al.nlayers, al.last_id - al.first_id)
        IN  /\ al.ret = al.after
            /\ al.ret = al.last_id + (IF al.ib_ob = "inboard" THEN 2 * k ELSE k)

\* a boolean command that names volume id
NamesInBoolean(c, id) ==
    \/ c.op = "subtract" /\ (c.tool = id \/ c.body = id)
    \/ c.op = "intersect" /\ (c.a = id \/ c.b = id)

\* a command that creates, cuts, deletes or groups volumes
IsGeometryCmd(c) ==
    c.op \in {"cylinder", "torus", "create_torus", "brick", "subtract", "intersect", "delete", "group"}

\* the first command that creates a volume
FirstCreation ==
    LET made == {i \in 1..Len(cmds) : cmds[i].op \in {"cylinder", "torus", "create_torus", "brick"}}
    IN  IF made = {} THEN 0 ELSE CHOOSE i \in made : \A j \in made : i <= j

\* C4: in MTOT.build_torus the splitting cylinder is created, as volume 1
\* and before the plasma torus, exactly when the radial build has an
\* 'Inboard' or 'Outboard' key; no group command names it; a completed build
\* with both sections names it in exactly one delete, after every intersect
\* and subtract that names it and before 'imprint volume all'; a build
\* without either key creates no cylinder and issues no intersect or delete.
C4_CylinderLifecycle ==
    (prog = "MTOT" /\ pc # "m_start") =>
        LET rb == args.radial_build
            hasKey == HasKey(rb, "Inboard") \/ HasKey(rb, "Outboard")
            cyl == CmdIdx("cylinder")
            del == {i \in CmdIdx("delete") : cmds[i].vol = loc.cyl_id}
        IN  /\ (cyl # {}) <=> hasKey
            /\ hasKey =>
                  /\ Cardinality(cyl) = 1
                  /\ FirstCreation \in cyl
                  /\ loc.cyl_id = 1
                  /\ \A i \in GroupIdx : cmds[i].vol # loc.cyl_id
            /\ (MtotBuilt /\ rb.keys = {"Inboard", "Outboard"}) =>
                  /\ Cardinality(del) = 1
                  /\ CmdIdx("imprint") # {}
                  /\ \A d \in del :
                        /\ \A i \in 1..Len(cmds) : NamesInBoolean(cmds[i], loc.cyl_id) => i < d
                        /\ \A i \in CmdIdx("imprint") : d < i
                  /\ ~Exists(kernel, loc.cyl_id)
            /\ ~hasKey => CmdIdx("intersect") = {} /\ CmdIdx("delete") = {}

C4_Witness ==
    /\ MtotBuilt /\ SplitBuild(args.radial_build)
    /\ Len(args.radial_build.Inboard) = 2 /\ Len(args.radial_build.Outboard) = 2
    /\ Cardinality({i \in 1..Len(cmds) : NamesInBoolean(cmds[i], 1)}) = 4
    /\ Cardinality({i \in CmdIdx("delete") : cmds[i].vol = 1}) = 1

\* C5: add_graveyard issues, in order, a brick of side length, a brick of
\* side 1.25 * length, the subtraction of the first brick (vol_id + 1) from
\* the second (vol_id + 2) and the 'mat:Graveyard' group on vol_id + 3, and
\* returns vol_id + 3, the ID of the volume the subtraction created.
\* build_torus issues them only when graveyard equals True (not for the
\* parser's default, the string 'False'), with length 4 * major_radius,
\* after all layer commands and right before 'imprint volume all'.
C5_Graveyard ==
    MtotBuilt =>
        LET bricks == CmdIdx("brick")
            gy == GroupsNamed("Graveyard")
            L == 4 * args.major_radius
        IN  IF args.cli.g
            THEN /\ args.graveyard = PyTrue
                 /\ Cardinality(bricks) = 2 /\ Cardinality(gy) = 1
                 /\ \E i \in CmdIdx("imprint") :
                       /\ i > 4
                       /\ LET v == Highest(KRun(KernelInit, SubSeq(cmds, 1, i - 5)))
                          IN  /\ cmds[i - 4] = [op |-> "brick", side4 |-> 4 * L]
                              /\ cmds[i - 3] = [op |-> "brick", side4 |-> 5 * L]
                              /\ cmds[i - 2] = SubtractCmd(v + 1, v + 2, FALSE)
                              /\ cmds[i - 1] = GroupCmd("Graveyard", v + 3)
                              /\ loc.vol_id = v + 3
                              /\ Highest(kernel) = v + 3
                              /\ kernel.vols[v + 3] = Vol("brick", 0, 4 * L, 5 * L, "full")
                              /\ ~Exists(kernel, v + 1) /\ ~Exists(kernel, v + 2)
                       /\ \A j \in 1..Len(cmds) :
                             (IsGeometryCmd(cmds[j]) /\ j \notin bricks \cup gy
                              /\ ~(cmds[j].op = "subtract" /\ ~cmds[j].keep_tool)) => j < i - 4
            ELSE /\ args.graveyard = PyStrFalse
                 /\ bricks = {} /\ gy = {}
                 /\ \A j \in CmdIdx("subtract") : cmds[j].keep_tool

C5_Witness ==
    /\ MtotBuilt /\ args.cli.g /\ SplitBuild(args.radial_build)
    /\ Len(args.radial_build.Inboard) = 1 /\ Len(args.radial_build.Outboard) = 2
    /\ args.major_radius = 10
    /\ GroupCmd("Graveyard", 12) \in {cmds[i] : i \in 1..Len(cmds)}
    /\ kernel.vols[12] = Vol("brick", 0, 160, 200, "full")

\* C6: AutoTorus exits having issued no cubit.cmd at all when the numbers
\* of names and thicknesses differ or when the thicknesses plus the minor
\* radius r exceed the major radius R, and only then; otherwise, the
\* boundary case sum + r = R included, it goes on to create the tori.
C6_RejectsBeforeGeometry ==
    (prog = "AutoTorus" /\ pc # "a_validate") =>
        LET thick == [j \in 1..Len(args.t) |-> int(args.t[j])]
            bad == Len(args.names) # Len(args.t) \/ SumTo(thick, Len(thick)) + args.r > args.R
        IN  /\ (pc = "exit") <=> bad
            /\ pc = "exit" => cmds = << InitCmd >>
            /\ pc \notin {"exit", "a_tori"} => Len(Tori) = Len(args.t) + 1

C6_Witness ==
    /\ prog = "AutoTorus" /\ pc = "done"
    /\ args.t = << "1", "2" >> /\ args.r = 1 /\ args.R = 4
    /\ Len(Tori) = 3

C6_WitnessRejected ==
    /\ prog = "AutoTorus" /\ pc = "exit"
    /\ Len(args.names) = Len(args.t)
    /\ args.t = << "2", "2" >> /\ args.r = 1 /\ args.R = 4

\* C7: MTOT.main exports once and last: the acis export is issued exactly
\* once in a run that completes and never before, right after 'set attribute
\* on', after 'imprint volume all' and 'merge volume all' in that order and
\* after every create, boolean and group command; the file is
\* '<export_path>.sat', 'tokamak.sat' when no path is given; the dagmc
\* export is issued exactly when dagmc equals True, after the acis export.
C7_ExportOnceAndLast ==
    prog = "MTOT" =>
        LET ex == CmdIdx("export_acis")
            dg == CmdIdx("export_dagmc")
            path == IF args.cli.export_path = NoPath THEN "tokamak" ELSE args.cli.export_path
        IN  /\ pc # "done" => ex = {} /\ dg = {}
            /\ pc = "done" =>
                  /\ Cardinality(ex) = 1
                  /\ \A e \in ex :
                        /\ e > 1 /\ cmds[e - 1].op = "set_attribute"
                        /\ cmds[e].file = << path, ".sat" >>
                        /\ \E i \in CmdIdx("imprint"), j \in CmdIdx("merge") :
                              /\ i < j /\ j < e - 1
                              /\ \A g \in 1..Len(cmds) : IsGeometryCmd(cmds[g]) => g < i
                        /\ \A d \in dg : d > e
                        /\ e = Len(cmds) - Cardinality(dg)
                  /\ (dg # {}) <=> args.cli.d
                  /\ Cardinality(dg) <= 1

C7_Witness ==
    /\ prog = "MTOT" /\ pc = "done"
    /\ args.cli.export_path = NoPath /\ args.cli.d
    /\ cmds[Len(cmds) - 1] = [op |-> "export_acis", file |-> << "tokamak", ".sat" >>]
    /\ cmds[Len(cmds)].op = "export_dagmc"

\* C8: the neutronics script calls openmc.run() exactly once, after the
\* materials (first_wall, breeder, back_wall), the settings (fixed-source
\* mode, the source already attached) and the tallies (one tally 'TBR'
\* scoring 'H3-production' on cell 6) have been exported, in that order.
C8_RunAfterConfiguration ==
    prog = "Introduction" =>
        LET log == omc.log
            runs == {i \in 1..Len(log) : log[i].op = "run"}
        IN  /\ Cardinality(runs) <= 1
            /\ pc = "done" => Cardinality(runs) = 1
            /\ \A i \in runs :
                  /\ i = 4
                  /\ log[1] = [op |-> "export", file |-> "materials",
                               content |-> << "first_wall", "breeder", "back_wall" >>]
                  /\ log[2].op = "export" /\ log[2].file = "settings"
                  /\ log[2].content.defined
                  /\ log[2].content.run_mode = "fixed source"
                  /\ log[2].content.source.defined
                  /\ log[2].content.source = omc.source
                  /\ log[3].op = "export" /\ log[3].file = "tallies"
                  /\ Len(log[3].content) = 1
                  /\ log[3].content[1].name = "TBR"
                  /\ log[3].content[1].scores = << "H3-production" >>
                  /\ log[3].content[1].filters = << [type |-> "cell", bins |-> 6] >>

C8_Witness ==
    /\ prog = "Introduction" /\ pc = "done"
    /\ Len(omc.log) = 4 /\ omc.log[4].op = "run"
    /\ omc.log[2].content.source.defined

\* the subtractions between tori, the intersects, the deletes and the layer
\* groups, in the order issued
IsLayerCmd(c) ==
    \/ c.op = "subtract" /\ c.keep_tool
    \/ c.op \in {"intersect", "delete"}
    \/ c.op = "group" /\ c.name \notin {"Vacuum", "Vaccum", "Graveyard"}

IsToriSubtract(c) == c.op = "subtract" /\ c.keep_tool

\* the kernel after the first x commands
KernelAt(x) == KRun(KernelInit, SubSeq(cmds, 1, x))

\* the index in cmds of the i-th command that satisfies a test
NthIdx(Test(_), i) ==
    CHOOSE x \in 1..Len(cmds) :
        /\ Test(cmds[x])
        /\ Cardinality({y \in 1..x : Test(cmds[y])}) = i

Count(Test(_)) == Cardinality({x \in 1..Len(cmds) : Test(cmds[x])})

\* the symmetric builds whose layers have all been grouped
SymGrouped ==
    \/ prog = "MTOT" /\ pc \in {"m_finish", "m_save", "done"} /\ SymBuild(args.radial_build)
    \/ prog = "tokamak" /\ pc \in {"t_sym_finish", "t_save", "done"} /\ SymBuild(args.radial_build)
    \/ prog = "AutoTorus" /\ pc \in {"a_export", "done"}

SymNames == IF prog = "AutoTorus" THEN args.names ELSE Keys(args.radial_build.list)

SymThick ==
    IF prog = "AutoTorus" THEN [j \in 1..Len(args.t) |-> int(args.t[j])]
    ELSE Values(args.radial_build.list)

SymMajor == IF prog = "AutoTorus" THEN args.R ELSE args.major_radius

SymMinor == IF prog = "AutoTorus" THEN args.r ELSE args.minor_radius

\* C9: in a symmetric build of n >= 1 layers (AutoTorus, tokamak.py,
\* MTOT.py) the plasma torus has ID 1 and the layer tori IDs 2..n+1; the
\* subtractions are 'subtract volume j from volume j+1 keep_tool' for
\* j = n, ..., 1; the group command with the name of layer j names volume
\* 2n + 2 - j, the ID the (n+1-j)-th subtraction receives, and that volume is
\* the shell between the layer's own two tori.
C9_SymmetricShellIds ==
    SymGrouped =>
        LET n == Len(SymNames)
        IN  /\ Len(Tori) = n + 1
            /\ \A k \in 1..(n + 1) : Highest(KernelAt(NthIdx(IsTorus, k))) = k
            /\ Count(IsToriSubtract) = n
            /\ \A i \in 1..n :
                  LET x == NthIdx(IsToriSubtract, i)
                  IN  /\ cmds[x] = SubtractCmd(n + 1 - i, n + 2 - i, TRUE)
                      /\ Highest(KernelAt(x)) = n + 1 + i
                      /\ Highest(KernelAt(x - 1)) = n + i
            /\ \A j \in 1..n :
                  LET id == 2 * n + 2 - j
                      named == {i \in GroupIdx : cmds[i].vol = id}
                  IN  /\ Cardinality(named) = 1
                      /\ \A i \in named : cmds[i].name = SymNames[j]
                      /\ id = n + 1 + (n + 1 - j)
                      /\ kernel.vols[id] = Vol("torus", SymMajor,
                                               SymMinor + SumTo(SymThick, j - 1),
                                               SymMinor + SumTo(SymThick, j), "full")

C9_Witness ==
    /\ prog = "AutoTorus" /\ pc = "done"
    /\ args.names = << "fw", "bz" >> /\ args.t = << "1", "2" >> /\ args.r = 1
    /\ GroupCmd("fw", 5) \in {cmds[i] : i \in 1..Len(cmds)}
    /\ GroupCmd("bz", 4) \in {cmds[i] : i \in 1..Len(cmds)}
    /\ kernel.vols[5].rin = 1 /\ kernel.vols[5].rout = 2

C9_WitnessMtot ==
    /\ prog = "MTOT" /\ pc = "done" /\ SymBuild(args.radial_build)
    /\ Len(args.radial_build.list) = 2
    /\ cmds[NthIdx(IsToriSubtract, 1)] = SubtractCmd(2, 3, TRUE)

\* the split builds whose layers have all been grouped
SplitGrouped ==
    \/ prog = "MTOT" /\ pc \in {"m_finish", "m_save", "done"} /\ SplitBuild(args.radial_build)
    \/ prog = "tokamak" /\ pc \in {"t_split_finish", "t_save", "done"}
         /\ SplitBuild(args.radial_build)

\* The commands of the inboard layers, outermost first: four per layer.
\* Layer j lies between torus j + 1 (the plasma for j = 1) and torus j + 2;
\* the i-th subtraction receives ID s = m + 1 + 2i.
InboardExpected(ib) ==
    LET m == Len(ib)
    IN  [x \in 1..(4 * m) |->
            LET i == ((x - 1) \div 4) + 1
                q == (x - 1) % 4
                j == m + 1 - i
                s == m + 1 + 2 * i
            IN  CASE q = 0 -> SubtractCmd(j + 1, j + 2, TRUE)
                  [] q = 1 -> IntersectCmd(1, s)
                  [] q = 2 -> DeleteCmd(s)
                  [] q = 3 -> GroupCmd(ib[j][1], s + 1)]

\* The commands of the outboard layers but the first, outermost first:
\* three per layer.  Outboard torus j has ID 3m + 2 + j; the i-th
\* subtraction receives ID s = 3m + 2 + p + i.
OutboardExpected(m, ob) ==
    LET p == Len(ob)
    IN  [x \in 1..(3 * (p - 1)) |->
            LET i == ((x - 1) \div 3) + 1
                q == (x - 1) % 3
                j == p + 1 - i
                s == 3 * m + 2 + p + i
            IN  CASE q = 0 -> SubtractCmd(3 * m + 1 + j, 3 * m + 2 + j, TRUE)
                  [] q = 1 -> SubtractCmd(1, s, TRUE)
                  [] q = 2 -> GroupCmd(ob[j][1], s)]

\* The first outboard layer: the plasma out of the first outboard torus.
FirstOutboardExpected(m, ob) ==
    LET last == 3 * m + 2 * Len(ob) + 2
    IN  << SubtractCmd(2, 3 * m + 3, TRUE), SubtractCmd(1, last, TRUE), GroupCmd(ob[1][1], last) >>

\* C10: in a split build with m >= 1 inboard and p >= 1 outboard layers
\* (MTOT.py and tokamak.py) the cylinder is volume 1, the plasma 2, inboard
\* torus j is j + 2 and outboard torus j is 3m + 2 + j; the boolean and group
\* commands are, per inboard layer outermost first, subtract (result s),
\* 'intersect vol 1 s keep' (result s + 1), 'delete vol s', group on s + 1;
\* per outboard layer but the first, outermost first, subtract (result s),
\* 'subtract vol 1 from vol s keep_tool', group on s; and last 'subtract
\* volume 2 from volume 3m+3 keep_tool' (result 3m + 2p + 2), cut by the
\* cylinder and grouped under the first outboard name.  Every ID written is
\* the ID the kernel gave the intended volume: each group names the inboard
\* or outboard half of the shell between the layer's own two tori.
C10_SplitIds ==
    SplitGrouped =>
        LET ib == args.radial_build.Inboard
            ob == args.radial_build.Outboard
            m == Len(ib)
            p == Len(ob)
            R == args.major_radius
            r == args.minor_radius
            last == 3 * m + 2 * p + 2
        IN  /\ SelectSeq(cmds, IsLayerCmd)
                 = InboardExpected(ib) \o OutboardExpected(m, ob) \o FirstOutboardExpected(m, ob)
                   \o << DeleteCmd(1) >>
            /\ KernelAt(2).vols = << Vol("cylinder", 0, 0, R, "full") >>
            /\ Len(Tori) = 1 + m + p
            /\ Highest(KernelAt(NthIdx(IsTorus, 1))) = 2
            /\ \A j \in 1..m : Highest(KernelAt(NthIdx(IsTorus, 1 + j))) = j + 2
            /\ \A j \in 1..p : Highest(KernelAt(NthIdx(IsTorus, 1 + m + j))) = 3 * m + 2 + j
            /\ Highest(KernelAt(NthIdx(IsLayerCmd, 4 * m + 3 * p + 1))) = last
            /\ \A j \in 1..m :
                  /\ kernel.vols[3 * m + 4 - 2 * j]
                       = Vol("torus", R, r + SumTo(Values(ib), j - 1), r + SumTo(Values(ib), j),
                             "inboard")
                  /\ ~Exists(kernel, 3 * m + 3 - 2 * j)
            /\ \A j \in 1..p :
                  kernel.vols[last + 1 - j]
                    = Vol("torus", R, r + SumTo(Values(ob), j - 1), r + SumTo(Values(ob), j),
                          "outboard")

C10_Witness ==
    /\ SplitGrouped /\ prog = "tokamak" /\ pc = "done"
    /\ Keys(args.radial_build.Inboard) = << "fw", "bz" >>
    /\ Keys(args.radial_build.Outboard) = << "bz", "fw" >>
    /\ GroupCmd("bz", 6) \in {cmds[i] : i \in 1..Len(cmds)}
    /\ GroupCmd("fw", 8) \in {cmds[i] : i \in 1..Len(cmds)}
    /\ GroupCmd("fw", 11) \in {cmds[i] : i \in 1..Len(cmds)}
    /\ GroupCmd("bz", 12) \in {cmds[i] : i \in 1..Len(cmds)}
    /\ kernel.vols[12].half = "outboard" /\ kernel.vols[8].half = "inboard"

C10_WitnessMtot ==
    /\ SplitGrouped /\ prog = "MTOT" /\ pc = "done"
    /\ Len(args.radial_build.Inboard) = 2 /\ Len(args.radial_build.Outboard) = 2
    /\ IntersectCmd(1, 5) \in {cmds[i] : i \in 1..Len(cmds)}
    /\ SubtractCmd(1, 11, TRUE) \in {cmds[i] : i \in 1..Len(cmds)}

\* the radial builds C11 speaks of: symmetric with n >= 1 layers, or both
\* sections with m >= 0 inboard and p >= 1 outboard layers
SameProcedureBuild(rb) ==
    \/ SymBuild(rb)
    \/ rb.kind = "dict" /\ rb.keys = {"Inboard", "Outboard"} /\ Len(rb.Outboard) >= 1

\* C11: for the same radii, graveyard flag and layers (symmetric n >= 1, or
\* Inboard m >= 0 with Outboard p >= 1) tokamak.build_torus issues exactly
\* the sequence of kernel calls, with the same volume IDs, that
\* MTOT.build_torus issues: when tokamak.build_torus has returned, its calls
\* are those of MTOT.build_torus on these arguments, and a run of
\* MTOT.build_torus itself has issued those same calls.
C11_SameProcedure ==
    /\ (prog = "tokamak" /\ pc = "t_save" /\ SameProcedureBuild(args.radial_build)) =>
          LET m == build_torus(args.major_radius, args.minor_radius, args.radial_build,
                               args.graveyard)
          IN  m.status = "returned" /\ cmds = m.cmds
    /\ (prog = "MTOT" /\ pc = "m_save" /\ SameProcedureBuild(args.radial_build)) =>
          LET m == build_torus(args.major_radius, args.minor_radius, args.radial_build,
                               args.graveyard)
          IN  m.status = "returned" /\ cmds = m.cmds

C11_Witness ==
    /\ prog = "tokamak" /\ pc = "t_save" /\ args.cli.g
    /\ args.radial_build.keys = {"Inboard", "Outboard"}
    /\ Len(args.radial_build.Inboard) = 0 /\ Len(args.radial_build.Outboard) = 2
    /\ GroupCmd("Graveyard", 9) \in {cmds[i] : i \in 1..Len(cmds)}
    /\ cmds = build_torus(args.major_radius, args.minor_radius, args.radial_build,
                          args.graveyard).cmds

DeletedVols == {cmds[i].vol : i \in CmdIdx("delete")}

GroupsPairwiseDistinct == \A i, j \in GroupIdx : cmds[i].vol = cmds[j].vol => i = j

\* C12: when MTOT.build_torus has returned (symmetric or split, any layer
\* counts, with or without graveyard) no two group commands name the same
\* volume ID and no group command names an ID that a delete command of the
\* run names; when AutoTorus has issued its groups, no two of them name the
\* same volume ID.
C12_GroupsDistinct ==
    /\ MtotBuilt => (GroupsPairwiseDistinct /\ GroupedVols \cap DeletedVols = {})
    /\ (prog = "AutoTorus" /\ pc \in {"a_export", "done"}) => GroupsPairwiseDistinct

C12_Witness ==
    /\ MtotBuilt /\ pc = "done" /\ args.cli.g
    /\ args.radial_build.kind = "dict"
    /\ HasKey(args.radial_build, "Inboard") /\ HasKey(args.radial_build, "Outboard")
    /\ Len(args.radial_build.Inboard) = 2 /\ Len(args.radial_build.Outboard) = 2
    /\ DeletedVols = {1, 5, 7}
    /\ GroupedVols = {2, 6, 8, 11, 12, 15}
    /\ Cardinality(GroupIdx) = 6

C12_WitnessAuto ==
    /\ prog = "AutoTorus" /\ pc = "done"
    /\ Len(args.names) = 2
    /\ GroupedVols = {1, 4, 5}
    /\ Cardinality(GroupIdx) = 3

====
